---- MODULE Spec2Model ----
(***************************************************************************)
(* Event Finder: the filter engine, the selection state, the map marker    *)
(* reconciliation of App.tsx and the RSVP submission flow of RSVPModal.tsx *)
(* as one state machine.                                                   *)
(*                                                                         *)
(* Strings that the code searches or converts (dates, city, address, the   *)
(* month filter, the search text) are sequences of one-character strings,  *)
(* so that includes(), toLowerCase() and the date parsing are computed.    *)
(* Coordinates are integers in units of 1e-4 degree.                       *)
(***************************************************************************)
EXTENDS Integers, Sequences, FiniteSets, TLC

VARIABLES
    EVENTS,          \* the catalog imported from ./constants (fixed per run)
    today,           \* the local calendar day read by new Date() (fixed per run)
    todayISO,        \* new Date().toISOString().split('T')[0]: the UTC day
    mapRef,          \* TRUE once L.map(...) has been created
    viewport,        \* the Leaflet view: [center |-> <<lat, lng>>, zoom |-> z]
    mapLayers,       \* the marker objects currently added to the map
    markersRef,      \* markersRef.current: event id -> marker object
    selectedEvent,   \* useState<ClinicEvent | null>
    isRSVPOpen,      \* useState(false)
    locationSearch,  \* useState('')
    filters,         \* useState({month, program, showPast})
    filteredEvents,  \* the memoised result of the filter engine
    effectPending,   \* a commit changed [filteredEvents, selectedEvent]: the
                     \* marker effect is scheduled and runs before any other event
    loading,         \* RSVPModal useState(false)
    status,          \* RSVPModal useState('idle')
    inflight,        \* requests awaited by the mounted RSVPModal instance
    orphaned,        \* requests awaited by handlers of unmounted instances
    timers,          \* pending setTimeout(onClose, 2500) callbacks
    attempts,        \* handleSubmit invocations so far
    sent,            \* fetch() calls so far
    transport,       \* what the transport last did for the mounted instance
    needs,           \* RSVPModal useState<string[]>([])
    contactMethod,   \* RSVPModal useState('text')
    requestBody,     \* the body of the request the mounted instance awaits
    ownTimers        \* pending close timers set for the mounted instance

appVars == <<mapRef, viewport, mapLayers, markersRef, selectedEvent,
             locationSearch, filters, filteredEvents, effectPending>>
formVars == <<needs, contactMethod>>
rsvpVars == <<loading, status, inflight, orphaned, timers, attempts, sent, transport,
              formVars, requestBody, ownTimers>>
vars == <<EVENTS, today, todayISO, appVars, isRSVPOpen, rsvpVars>>

----------------------------------------------------------------------------
(* Bounds and program constants *)

MaxAttempts == 2        \* submission attempts explored per run

DetailZoom == 14        \* handleSelectEvent: setView(..., 14)
ViewMapZoom == 16       \* "View Map" button: setView(..., 16)
InitialZoom == 10       \* L.map(...).setView([33.9719, -118.2108], 10)
InitialLat == 339719
InitialLng == -1182108
PadPercent == 20        \* getBounds().pad(0.2)
SelectedZIndex == 1000  \* zIndexOffset of the selected marker
SelectedWidth == 44     \* pin width of the selected marker, px
NormalWidth == 32       \* pin width of any other marker, px
MaxZoom == 18           \* Leaflet's default maxZoom of the tile layer
ViewSpan == 14400000    \* coordinate units the map container spans at zoom 0

NULL == [id |-> "null"]
NoView == [center |-> <<0, 0>>, zoom |-> -1]

\* what the transport last did for the mounted instance, and the HTTP status of
\* the response it delivered (0 for the opaque response of a no-cors request)
NoTransport == [outcome |-> "none", response |-> -1]

Responses == {0, 200, 500}

\* requestBody when the mounted instance awaits no request
NoPayload == [eventId |-> "none"]

----------------------------------------------------------------------------
(* Strings: String.prototype.toLowerCase and String.prototype.includes *)

ToLowerChar(c) ==
    CASE c = "A" -> "a" [] c = "B" -> "b" [] c = "E" -> "e" [] c = "K" -> "k"
      [] c = "L" -> "l" [] c = "M" -> "m" [] c = "O" -> "o" [] c = "R" -> "r"
      [] c = "T" -> "t" [] OTHER -> c

ToLowerCase(s) == [i \in 1..Len(s) |-> ToLowerChar(s[i])]

Includes(s, sub) ==
    \E i \in 1..(Len(s) - Len(sub) + 1) : SubSeq(s, i, i + Len(sub) - 1) = sub

----------------------------------------------------------------------------
(* Dates: "YYYY-MM-DD" strings and the Date values parsed from them *)

Digits == <<"0", "1", "2", "3", "4", "5", "6", "7", "8", "9">>

DigitVal(c) == (CHOOSE i \in 1..10 : Digits[i] = c) - 1

RECURSIVE ParseInt(_)
ParseInt(s) ==
    IF s = <<>> THEN 0
    ELSE 10 * ParseInt(SubSeq(s, 1, Len(s) - 1)) + DigitVal(s[Len(s)])

\* new Date("YYYY-MM-DD...") : the calendar day the string names
ParseDate(s) ==
    [y |-> ParseInt(SubSeq(s, 1, 4)),
     m |-> ParseInt(SubSeq(s, 6, 7)),
     d |-> ParseInt(SubSeq(s, 9, 10))]

\* Days since 1970-01-01 of a calendar day (proleptic Gregorian calendar)
DayNumber(date) ==
    LET y   == IF date.m <= 2 THEN date.y - 1 ELSE date.y
        era == y \div 400
        yoe == y - era * 400
        mp  == IF date.m > 2 THEN date.m - 3 ELSE date.m + 9
        doy == (153 * mp + 2) \div 5 + date.d - 1
        doe == yoe * 365 + yoe \div 4 - yoe \div 100 + doy
    IN  era * 146097 + doe - 719468

\* new Date(dateStr).getTime(), in days rather than milliseconds
GetTime(dateStr) == DayNumber(ParseDate(dateStr))

\* isPast: the event's local midnight is before today's local midnight
isPast(dateStr, now) == DayNumber(ParseDate(dateStr)) < DayNumber(now)

----------------------------------------------------------------------------
(* The catalogs and clocks a run may start from *)

E1 == [id |-> "e1", date |-> <<"2","0","2","6","-","0","3","-","1","0">>,
       city |-> <<"T","o","r">>, address |-> <<"9"," ","E","l","m">>,
       program |-> "Community Fair",
       lat |-> 338400, lng |-> -1183400, saveTheDate |-> TRUE]
E2 == [id |-> "e2", date |-> <<"2","0","2","6","-","0","1","-","0","5">>,
       city |-> <<"L","A">>, address |-> <<"1"," ","O","a","k">>,
       program |-> "Unstoppable Workshop",
       lat |-> 340500, lng |-> -1182400, saveTheDate |-> FALSE]
E3 == [id |-> "e3", date |-> <<"2","0","2","6","-","0","3","-","1","0">>,
       city |-> <<"B","e","l","l">>, address |-> <<"2"," ","L","a","r","k">>,
       program |-> "Community Walk & Run",
       lat |-> 339700, lng |-> -1181900, saveTheDate |-> FALSE]
E4 == [id |-> "e4", date |-> <<"2","0","2","5","-","1","2","-","2","0">>,
       city |-> <<"L","A">>, address |-> <<"7"," ","B","a","y">>,
       program |-> "Community Wellness",
       lat |-> 340500, lng |-> -1181500, saveTheDate |-> FALSE]

Catalog == <<E1, E2, E3, E4>>

Jan05 == [y |-> 2026, m |-> 1, d |-> 5]
Feb15 == [y |-> 2026, m |-> 2, d |-> 15]

Jan05ISO == <<"2","0","2","6","-","0","1","-","0","5">>
Jan06ISO == <<"2","0","2","6","-","0","1","-","0","6">>
Feb15ISO == <<"2","0","2","6","-","0","2","-","1","5">>

\* catalog, local day and UTC day; in the second the local evening of January 5
\* is already January 6 in UTC
Worlds == { [events |-> Catalog, now |-> Jan05, iso |-> Jan05ISO],
            [events |-> Catalog, now |-> Jan05, iso |-> Jan06ISO],
            [events |-> Catalog, now |-> Feb15, iso |-> Feb15ISO],
            [events |-> <<>>,    now |-> Jan05, iso |-> Jan05ISO] }

MonthOptions == { <<>>, <<"1","2">>, <<"0","1">>, <<"0","2">>, <<"0","3">> }

ProgramOptions == { "", "Unstoppable Wellness Meetup", "Unstoppable Workshop",
                    "Community Walk & Run", "Community Fair" }

SearchTexts == { <<>>, <<"l","a">>, <<"O","A","K">>, <<"L">> }

NoFilters == [month |-> <<>>, program |-> "", showPast |-> FALSE]

----------------------------------------------------------------------------
(* Filter engine: the useMemo of App.tsx *)

Matches(event, f, query, now) ==
    LET monthMatch == f.month = <<>> \/ Includes(event.date, <<"-">> \o f.month \o <<"-">>)
        programMatch == f.program = "" \/ event.program = f.program
        locQuery == ToLowerCase(query)
        locationMatch == \/ query = <<>>
                         \/ Includes(ToLowerCase(event.city), locQuery)
                         \/ Includes(ToLowerCase(event.address), locQuery)
        eventIsPast == isPast(event.date, now)
        archivalMatch == IF f.showPast THEN eventIsPast ELSE ~eventIsPast
    IN  monthMatch /\ programMatch /\ locationMatch /\ archivalMatch

\* (a, b) => new Date(a.date).getTime() - new Date(b.date).getTime()
Compare(a, b) == GetTime(a.date) - GetTime(b.date)

\* Mutant: an unstable sort, x goes before the elements equal to it
InsertSortedUnstable(sorted, x) ==
    LET k == Cardinality({i \in 1..Len(sorted) : Compare(sorted[i], x) < 0})
    IN  SubSeq(sorted, 1, k) \o <<x>> \o SubSeq(sorted, k + 1, Len(sorted))

\* Array.prototype.sort is stable: x goes after every element not greater than it
InsertSorted(sorted, x) ==
    LET k == Cardinality({i \in 1..Len(sorted) : Compare(sorted[i], x) <= 0})
    IN  SubSeq(sorted, 1, k) \o <<x>> \o SubSeq(sorted, k + 1, Len(sorted))

RECURSIVE SortByDate(_)
SortByDate(s) ==
    IF s = <<>> THEN <<>>
    ELSE InsertSorted(SortByDate(SubSeq(s, 1, Len(s) - 1)), s[Len(s)])

FilterEvents(events, f, query, now) ==
    SortByDate(SelectSeq(events, LAMBDA event : Matches(event, f, query, now)))

----------------------------------------------------------------------------
(* Map view: markers, bounds and the Leaflet view *)

SetView(lat, lng, zoom) == [center |-> <<lat, lng>>, zoom |-> zoom]

MakeMarker(event, selected) ==
    LET isSelected == selected # NULL /\ selected.id = event.id
    IN  [event |-> event,
         width |-> IF isSelected THEN SelectedWidth ELSE NormalWidth,
         zIndexOffset |-> IF isSelected THEN SelectedZIndex ELSE 0]

Min(S) == CHOOSE x \in S : \A y \in S : x <= y
Max(S) == CHOOSE x \in S : \A y \in S : x >= y

\* L.featureGroup(markers).getBounds()
GetBounds(markers) ==
    [south |-> Min({m.event.lat : m \in markers}),
     north |-> Max({m.event.lat : m \in markers}),
     west  |-> Min({m.event.lng : m \in markers}),
     east  |-> Max({m.event.lng : m \in markers})]

\* LatLngBounds.pad(ratio)
Pad(b, percent) ==
    LET heightBuffer == ((b.north - b.south) * percent) \div 100
        widthBuffer  == ((b.east - b.west) * percent) \div 100
    IN  [south |-> b.south - heightBuffer, north |-> b.north + heightBuffer,
         west  |-> b.west - widthBuffer,   east  |-> b.east + widthBuffer]

\* Map.getBoundsZoom: the largest zoom at which the bounds fit the container
GetBoundsZoom(b) ==
    Max({z \in 0..MaxZoom : /\ (b.north - b.south) * 2^z <= ViewSpan
                            /\ (b.east - b.west) * 2^z <= ViewSpan})

\* Map.fitBounds(bounds)
FitBounds(b) ==
    [center |-> <<(b.south + b.north) \div 2, (b.west + b.east) \div 2>>,
     zoom |-> GetBoundsZoom(b)]

Range(f) == {f[k] : k \in DOMAIN f}

NoMarkers == [id \in {} |-> NULL]

----------------------------------------------------------------------------
(* Initial state: the first render, before any effect has run *)

Init ==
    /\ \E w \in Worlds :
          /\ EVENTS = w.events
          /\ today = w.now
          /\ todayISO = w.iso
          /\ filteredEvents = FilterEvents(w.events, NoFilters, <<>>, w.now)
    /\ mapRef = FALSE
    /\ viewport = NoView
    /\ mapLayers = {}
    /\ markersRef = NoMarkers
    /\ selectedEvent = NULL
    /\ isRSVPOpen = FALSE
    /\ locationSearch = <<>>
    /\ filters = NoFilters
    /\ effectPending = FALSE
    /\ loading = FALSE
    /\ status = "idle"
    /\ inflight = 0
    /\ orphaned = 0
    /\ timers = 0
    /\ attempts = 0
    /\ sent = 0
    /\ transport = NoTransport
    /\ needs = <<>>
    /\ contactMethod = "text"
    /\ requestBody = NoPayload
    /\ ownTimers = 0

----------------------------------------------------------------------------
(* App.tsx: effects *)

\* useEffect(..., []): the map is created once, then the marker effect runs
Mount ==
    /\ ~mapRef
    /\ mapRef' = TRUE
    /\ viewport' = SetView(InitialLat, InitialLng, InitialZoom)
    /\ effectPending' = TRUE
    /\ UNCHANGED <<EVENTS, today, todayISO, mapLayers, markersRef, selectedEvent, isRSVPOpen,
                   locationSearch, filters, filteredEvents, rsvpVars>>

\* markersRef.current after the forEach: the last marker made for each id
NewMarkersRef(events, selected) ==
    [id \in {events[i].id : i \in 1..Len(events)} |->
        LET last == Max({i \in 1..Len(events) : events[i].id = id})
        IN  MakeMarker(events[last], selected)]

\* Mutant: the old markers are not removed from the map
NewMapLayersKeepOld(layers, ref, events, selected) ==
    layers \cup {MakeMarker(events[i], selected) : i \in 1..Len(events)}

\* the markers on the map after the old ones are removed and the new ones added
NewMapLayers(layers, ref, events, selected) ==
    (layers \ Range(ref)) \cup {MakeMarker(events[i], selected) : i \in 1..Len(events)}

\* Mutant: the bounds are not padded
ReframedViewUnpadded(view, ref, events, selected) ==
    IF Len(events) > 0 /\ selected = NULL
    THEN FitBounds(GetBounds(Range(ref)))
    ELSE view

\* Mutant: the view is reframed whether or not an event is selected
ReframedViewAlways(view, ref, events, selected) ==
    IF Len(events) > 0
    THEN FitBounds(Pad(GetBounds(Range(ref)), PadPercent))
    ELSE view

\* the view after the effect's closing fitBounds
ReframedView(view, ref, events, selected) ==
    IF Len(events) > 0 /\ selected = NULL
    THEN FitBounds(Pad(GetBounds(Range(ref)), PadPercent))
    ELSE view

\* useEffect(..., [filteredEvents, selectedEvent])
ReconcileEffect ==
    /\ effectPending
    /\ effectPending' = FALSE
    /\ IF ~mapRef
       THEN UNCHANGED <<mapLayers, markersRef, viewport>>
       ELSE /\ mapLayers' = NewMapLayers(mapLayers, markersRef, filteredEvents, selectedEvent)
            /\ markersRef' = NewMarkersRef(filteredEvents, selectedEvent)
            /\ viewport' = ReframedView(viewport, markersRef', filteredEvents, selectedEvent)
    /\ UNCHANGED <<EVENTS, today, todayISO, mapRef, selectedEvent, isRSVPOpen, locationSearch,
                   filters, filteredEvents, rsvpVars>>

----------------------------------------------------------------------------
(* App.tsx: user events.  An event is handled only when the previous commit's *)
(* effect has run.                                                            *)

Ready == mapRef /\ ~effectPending

\* the RSVP form is on screen: RSVPModal is mounted and has an event; its
\* overlay (fixed inset-0) then takes the pointer events of the whole page
FormShown == isRSVPOpen /\ selectedEvent # NULL

\* marker.on('click', () => setSelectedEvent(event))
MarkerClick(m) ==
    /\ Ready
    /\ m \in mapLayers
    /\ selectedEvent' = m.event
    /\ effectPending' = (m.event # selectedEvent)
    /\ UNCHANGED <<EVENTS, today, todayISO, mapRef, viewport, mapLayers, markersRef, isRSVPOpen,
                   locationSearch, filters, filteredEvents, rsvpVars>>

\* list entry onClick; the entry is a div, reached by the pointer only
handleSelectEvent(e) ==
    /\ Ready
    /\ ~FormShown
    /\ \E i \in 1..Len(filteredEvents) : filteredEvents[i] = e
    /\ selectedEvent' = e
    /\ viewport' = SetView(e.lat, e.lng, DetailZoom)
    /\ effectPending' = (e # selectedEvent)
    /\ UNCHANGED <<EVENTS, today, todayISO, mapRef, mapLayers, markersRef, isRSVPOpen,
                   locationSearch, filters, filteredEvents, rsvpVars>>

\* detail panel close button: setSelectedEvent(null)
ClearSelection ==
    /\ Ready
    /\ selectedEvent # NULL
    /\ selectedEvent' = NULL
    /\ effectPending' = TRUE
    /\ UNCHANGED <<EVENTS, today, todayISO, mapRef, viewport, mapLayers, markersRef, isRSVPOpen,
                   locationSearch, filters, filteredEvents, rsvpVars>>

\* "View Map" button
ViewMap ==
    /\ Ready
    /\ selectedEvent # NULL
    /\ viewport' = SetView(selectedEvent.lat, selectedEvent.lng, ViewMapZoom)
    /\ UNCHANGED <<EVENTS, today, todayISO, mapRef, mapLayers, markersRef, selectedEvent,
                   isRSVPOpen, locationSearch, filters, filteredEvents, effectPending,
                   rsvpVars>>

\* a commit of new filter criteria: useMemo recomputes, the effect is scheduled
CommitFilters(f, query) ==
    /\ filters' = f
    /\ locationSearch' = query
    /\ filteredEvents' = FilterEvents(EVENTS, f, query, today)
    /\ effectPending' = TRUE
    /\ UNCHANGED <<EVENTS, today, todayISO, mapRef, viewport, mapLayers, markersRef,
                   selectedEvent, isRSVPOpen, rsvpVars>>

\* search input onChange
SetLocationSearch(query) ==
    /\ Ready
    /\ query # locationSearch
    /\ CommitFilters(filters, query)

\* month select onChange
SetMonth(month) ==
    /\ Ready
    /\ month # filters.month
    /\ CommitFilters([filters EXCEPT !.month = month], locationSearch)

\* program select onChange
SetProgram(program) ==
    /\ Ready
    /\ program # filters.program
    /\ CommitFilters([filters EXCEPT !.program = program], locationSearch)

\* "upcoming" / "past" buttons: setFilters(f => ({ ...f, showPast }))
SetShowPast(showPast) ==
    /\ Ready
    /\ CommitFilters([filters EXCEPT !.showPast = showPast], locationSearch)

\* "clear filters" button, rendered while a filter or the search text is set
ClearFilters ==
    /\ Ready
    /\ (filters.month # <<>> \/ filters.program # "" \/ locationSearch # <<>>)
    /\ CommitFilters(NoFilters, <<>>)

\* RSVP button of the detail panel: setIsRSVPOpen(true)
OpenRSVP ==
    /\ Ready
    /\ selectedEvent # NULL
    /\ ~selectedEvent.saveTheDate
    /\ ~isPast(selectedEvent.date, today)
    /\ ~isRSVPOpen
    /\ isRSVPOpen' = TRUE
    /\ UNCHANGED <<EVENTS, today, todayISO, appVars, rsvpVars>>

----------------------------------------------------------------------------
(* RSVPModal.tsx *)

\* new Date().toISOString().split('T')[0] === event.date
isToday(event, iso) == event.date = iso

Forms == [name : {"", "Jane"}, phone : {"", "555-1234"}, email : {"", "j@x.org"}]

\* the required attributes of the inputs
FormValid(form, event, iso) ==
    /\ form.name # ""
    /\ form.phone # ""
    /\ (~isToday(event, iso) => form.email # "")

\* the ids of the need buttons, in the order they are rendered
NeedIds == <<"screening", "resources", "both", "goodies", "checkin">>

\* the need buttons the user presses in a run
ToggleIds == {NeedIds[1], NeedIds[5]}

ContactMethods == {"text", "email", "none"}

\* a toggle that adds the tag whether or not it is selected
ToggledNeedsAppend(prev, val) == Append(prev, val)

\* prev => prev.includes(val) ? prev.filter(v => v !== val) : [...prev, val]
ToggledNeeds(prev, val) ==
    IF \E i \in 1..Len(prev) : prev[i] = val
    THEN SelectSeq(prev, LAMBDA v : v # val)
    ELSE Append(prev, val)

\* need button onClick
toggleNeed(val) ==
    /\ Ready
    /\ FormShown
    /\ needs' = ToggledNeeds(needs, val)
    /\ UNCHANGED <<EVENTS, today, todayISO, appVars, isRSVPOpen, loading, status, inflight,
                   orphaned, timers, attempts, sent, transport, contactMethod,
                   requestBody, ownTimers>>

\* contact method buttons onClick
setContactMethod(method) ==
    /\ Ready
    /\ FormShown
    /\ method # contactMethod
    /\ contactMethod' = method
    /\ UNCHANGED <<EVENTS, today, todayISO, appVars, isRSVPOpen, loading, status, inflight,
                   orphaned, timers, attempts, sent, transport, needs,
                   requestBody, ownTimers>>

\* the RSVPPayload built by handleSubmit
Payload(form, event, method, tags, iso) ==
    [eventId |-> event.id,
     name |-> form.name,
     phone |-> form.phone,
     email |-> form.email,
     contact_method |-> method,
     needs |-> tags,
     source |-> IF isToday(event, iso) THEN "Live Event Check-In" ELSE "Planning Ahead RSVP"]

\* the component unmounts: its state is dropped, its request is no longer awaited
\* by a mounted instance
Unmount ==
    /\ isRSVPOpen' = FALSE
    /\ loading' = FALSE
    /\ status' = "idle"
    /\ transport' = NoTransport
    /\ orphaned' = orphaned + inflight
    /\ inflight' = 0
    /\ needs' = <<>>
    /\ contactMethod' = "text"
    /\ ownTimers' = 0
    /\ requestBody' = NoPayload

\* handleSubmit with a submit button that stays enabled while loading
handleSubmitWhileLoading(form) ==
    /\ Ready
    /\ FormShown
    /\ FormValid(form, selectedEvent, todayISO)
    /\ attempts < MaxAttempts
    /\ loading' = TRUE
    /\ status' = "idle"
    /\ attempts' = attempts + 1
    /\ sent' = sent + 1
    /\ inflight' = inflight + 1
    /\ transport' = [outcome |-> "sent", response |-> -1]
    /\ requestBody' = Payload(form, selectedEvent, contactMethod, needs, todayISO)
    /\ UNCHANGED <<EVENTS, today, todayISO, appVars, isRSVPOpen, orphaned, timers,
                   formVars, ownTimers>>

\* form onSubmit, up to the await of fetch()
handleSubmit(form) ==
    /\ Ready
    /\ FormShown
    /\ ~loading
    /\ FormValid(form, selectedEvent, todayISO)
    /\ attempts < MaxAttempts
    /\ loading' = TRUE
    /\ status' = "idle"
    /\ attempts' = attempts + 1
    /\ sent' = sent + 1
    /\ inflight' = inflight + 1
    /\ transport' = [outcome |-> "sent", response |-> -1]
    /\ requestBody' = Payload(form, selectedEvent, contactMethod, needs, todayISO)
    /\ UNCHANGED <<EVENTS, today, todayISO, appVars, isRSVPOpen, orphaned, timers,
                   formVars, ownTimers>>

\* Mutant: the response status decides between success and error
FetchResolvedChecked(response) ==
    /\ Ready
    /\ inflight > 0
    /\ inflight' = inflight - 1
    /\ status' = IF response \in 200..299 THEN "success" ELSE "error"
    /\ timers' = IF response \in 200..299 THEN timers + 1 ELSE timers
    /\ ownTimers' = IF response \in 200..299 THEN ownTimers + 1 ELSE ownTimers
    /\ loading' = FALSE
    /\ transport' = [outcome |-> "resolved", response |-> response]
    /\ requestBody' = NoPayload
    /\ UNCHANGED <<EVENTS, today, todayISO, appVars, isRSVPOpen, orphaned, attempts, sent,
                   formVars>>

\* fetch() resolved, whatever the response: the try block continues
FetchResolved(response) ==
    /\ Ready
    /\ inflight > 0
    /\ inflight' = inflight - 1
    /\ status' = "success"
    /\ timers' = timers + 1
    /\ ownTimers' = ownTimers + 1
    /\ loading' = FALSE
    /\ transport' = [outcome |-> "resolved", response |-> response]
    /\ requestBody' = NoPayload
    /\ UNCHANGED <<EVENTS, today, todayISO, appVars, isRSVPOpen, orphaned, attempts, sent,
                   formVars>>

\* Mutant: a rejected request is sent again
FetchRejectedRetry ==
    /\ Ready
    /\ inflight > 0
    /\ sent' = sent + 1
    /\ transport' = [outcome |-> "sent", response |-> -1]
    /\ UNCHANGED <<EVENTS, today, todayISO, appVars, isRSVPOpen, loading, status, inflight,
                   orphaned, timers, attempts, formVars, requestBody, ownTimers>>

\* a catch block that also drops the selection
FetchRejectedDeselects ==
    /\ Ready
    /\ inflight > 0
    /\ inflight' = inflight - 1
    /\ status' = "error"
    /\ loading' = FALSE
    /\ transport' = [outcome |-> "rejected", response |-> -1]
    /\ requestBody' = NoPayload
    /\ selectedEvent' = NULL
    /\ effectPending' = (selectedEvent # NULL)
    /\ UNCHANGED <<EVENTS, today, todayISO, mapRef, viewport, mapLayers, markersRef,
                   locationSearch, filters, filteredEvents, isRSVPOpen, orphaned, timers,
                   attempts, sent, formVars, ownTimers>>

\* fetch() rejected: the catch block
FetchRejected ==
    /\ Ready
    /\ inflight > 0
    /\ inflight' = inflight - 1
    /\ status' = "error"
    /\ loading' = FALSE
    /\ transport' = [outcome |-> "rejected", response |-> -1]
    /\ requestBody' = NoPayload
    /\ UNCHANGED <<EVENTS, today, todayISO, appVars, isRSVPOpen, orphaned, timers, attempts, sent,
                   formVars, ownTimers>>

\* the same continuations in a handler whose component has unmounted: the state
\* setters do nothing, the timer is still set
OrphanResolved ==
    /\ Ready
    /\ orphaned > 0
    /\ orphaned' = orphaned - 1
    /\ timers' = timers + 1
    /\ UNCHANGED <<EVENTS, today, todayISO, appVars, isRSVPOpen, loading, status, inflight,
                   attempts, sent, transport, formVars, requestBody, ownTimers>>

OrphanRejected ==
    /\ Ready
    /\ orphaned > 0
    /\ orphaned' = orphaned - 1
    /\ UNCHANGED <<EVENTS, today, todayISO, appVars, isRSVPOpen, loading, status, inflight,
                   timers, attempts, sent, transport, formVars, requestBody, ownTimers>>

\* the modal's close button: onClose
CloseRSVP ==
    /\ Ready
    /\ FormShown
    /\ Unmount
    /\ UNCHANGED <<EVENTS, today, todayISO, appVars, timers, attempts, sent>>

\* setTimeout(onClose, 2500) fires
TimerFire ==
    /\ Ready
    /\ timers > 0
    /\ timers' = timers - 1
    /\ IF isRSVPOpen
       THEN Unmount
       ELSE UNCHANGED <<isRSVPOpen, loading, status, transport, orphaned, inflight,
                        formVars, ownTimers, requestBody>>
    /\ UNCHANGED <<EVENTS, today, todayISO, appVars, attempts, sent>>

----------------------------------------------------------------------------

\* the events of the map, the list and the filter controls
MapNext ==
    \/ Mount
    \/ ReconcileEffect
    \/ \E m \in mapLayers : MarkerClick(m)
    \/ \E i \in 1..Len(filteredEvents) : handleSelectEvent(filteredEvents[i])
    \/ ClearSelection
    \/ ViewMap
    \/ \E query \in SearchTexts : SetLocationSearch(query)
    \/ \E month \in MonthOptions : SetMonth(month)
    \/ \E program \in ProgramOptions : SetProgram(program)
    \/ \E showPast \in BOOLEAN : SetShowPast(showPast)
    \/ ClearFilters

\* the events of the RSVP flow
FlowNext ==
    \/ OpenRSVP
    \/ \E form \in Forms : handleSubmit(form)
    \/ \E response \in Responses : FetchResolved(response)
    \/ FetchRejected
    \/ OrphanResolved
    \/ OrphanRejected
    \/ CloseRSVP
    \/ TimerFire

\* the events of the form's need and contact method buttons
FormNext ==
    \/ \E val \in ToggleIds : toggleNeed(val)
    \/ \E method \in ContactMethods : setContactMethod(method)

\* the map comes up and an event is picked from its markers
PickNext ==
    \/ Mount
    \/ ReconcileEffect
    \/ \E m \in mapLayers : MarkerClick(m)

\* the flow is opened, submitted, answered and closed by the user
SubmitNext ==
    \/ OpenRSVP
    \/ \E form \in Forms : handleSubmit(form)
    \/ \E response \in Responses : FetchResolved(response)
    \/ FetchRejected
    \/ CloseRSVP

\* the events by which an event is picked for the RSVP flow
SelectNext ==
    \/ Mount
    \/ ReconcileEffect
    \/ \E m \in mapLayers : MarkerClick(m)
    \/ \E i \in 1..Len(filteredEvents) : handleSelectEvent(filteredEvents[i])
    \/ ClearSelection
    \/ \E showPast \in BOOLEAN : SetShowPast(showPast)

Next == MapNext \/ FlowNext \/ FormNext

\* every event of the application
Spec == Init /\ [][Next]_vars

\* the map, list and filters, with the RSVP flow never opened
SpecMap == Init /\ [][MapNext]_vars

\* the RSVP flow, with the filter criteria left at month and program unset
SpecRSVP == Init /\ [][SelectNext \/ FlowNext]_vars

\* the RSVP flow with the need and contact method buttons in use
SpecForm == Init /\ [][PickNext \/ FormNext \/ SubmitNext]_vars

----------------------------------------------------------------------------
(* Properties of the map, the list and the filters (under SpecMap) *)

InFiltered(e) == \E i \in 1..Len(filteredEvents) : filteredEvents[i] = e

\* C1: a click on an event's map marker leaves the application in the state a
\* click on the same event's list entry leaves it in: the same selection and the
\* same viewport.  Stated of every marker-click step: it is also a step of
\* handleSelectEvent on the marker's event.
C1_MarkerClickIsListClick ==
    [][\A m \in mapLayers : MarkerClick(m) => handleSelectEvent(m.event)]_vars

\* The matching rules as the specification words them.
MonthOf(event) == SubSeq(event.date, 6, 7)

ContainsIgnoringCase(text, query) ==
    \E i \in 1..(Len(text) - Len(query) + 1) :
        \A k \in 1..Len(query) : ToLowerChar(text[i + k - 1]) = ToLowerChar(query[k])

StrictlyBefore(a, b) ==
    \/ a.y < b.y
    \/ a.y = b.y /\ a.m < b.m
    \/ a.y = b.y /\ a.m = b.m /\ a.d < b.d

Wanted(event) ==
    /\ filters.month = <<>> \/ MonthOf(event) = filters.month
    /\ filters.program = "" \/ event.program = filters.program
    /\ \/ locationSearch = <<>>
       \/ ContainsIgnoringCase(event.city, locationSearch)
       \/ ContainsIgnoringCase(event.address, locationSearch)
    /\ StrictlyBefore(ParseDate(event.date), today) <=> filters.showPast

CatalogIndex(e) == CHOOSE i \in 1..Len(EVENTS) : EVENTS[i] = e

\* C2: for every month filter, program filter, search text and past/upcoming
\* toggle, the filtered list holds exactly the catalog events that satisfy the
\* four matching rules, each once, in ascending date order, events of equal date
\* in catalog order; an empty catalog gives an empty list.
C2_FilterExact ==
    /\ \A i \in 1..Len(EVENTS) : InFiltered(EVENTS[i]) <=> Wanted(EVENTS[i])
    /\ \A j \in 1..Len(filteredEvents) : \E i \in 1..Len(EVENTS) : EVENTS[i] = filteredEvents[j]
    /\ Len(filteredEvents) = Cardinality({i \in 1..Len(EVENTS) : Wanted(EVENTS[i])})
    /\ \A j, k \in 1..Len(filteredEvents) :
          j < k =>
             LET a == ParseDate(filteredEvents[j].date)
                 b == ParseDate(filteredEvents[k].date)
             IN  /\ ~StrictlyBefore(b, a)
                 /\ a = b => CatalogIndex(filteredEvents[j]) < CatalogIndex(filteredEvents[k])
    /\ EVENTS = <<>> => filteredEvents = <<>>

\* Witness of C2: month and search text are set, two events of equal date are
\* listed in catalog order and the other catalog events are left out.
C2_Witness ==
    /\ filters.month = <<"0","3">>
    /\ locationSearch = <<"L">>
    /\ filteredEvents = <<E1, E3>>
    /\ Len(EVENTS) = 4

Emphasised(m) == m.width = SelectedWidth /\ m.zIndexOffset = SelectedZIndex
Plain(m) == m.width = NormalWidth /\ m.zIndexOffset = 0

\* C3: once the reconciliation pass has run on the latest filtered set and
\* selection, the map shows exactly one marker per filtered event and no other
\* marker, and a marker is emphasised iff its event is the selection.
C3_MarkersReconciled ==
    (mapRef /\ ~effectPending) =>
        /\ \A i \in 1..Len(filteredEvents) :
              Cardinality({m \in mapLayers : m.event = filteredEvents[i]}) = 1
        /\ \A m \in mapLayers : InFiltered(m.event)
        /\ \A m \in mapLayers :
              IF selectedEvent # NULL /\ selectedEvent.id = m.event.id
              THEN Emphasised(m) ELSE Plain(m)

\* Witness of C3: after filter edits and a selection, the pass has run and left
\* fewer markers than the catalog has events, one of them emphasised.
C3_Witness ==
    /\ mapRef /\ ~effectPending
    /\ filters.month # <<>>
    /\ Cardinality(mapLayers) = 2
    /\ \E m \in mapLayers : Emphasised(m) /\ m.event = selectedEvent

\* C4: whenever a list click or a marker click changes the selection, the
\* viewport is afterwards centred on the newly selected event at the detail zoom.
C4_SelectionRecentres ==
    [][(selectedEvent' # selectedEvent /\ selectedEvent' # NULL) =>
          viewport' = SetView(selectedEvent'.lat, selectedEvent'.lng, DetailZoom)]_vars

ReconcilePass == mapRef /\ effectPending /\ ~effectPending'

Lats == {filteredEvents[i].lat : i \in 1..Len(filteredEvents)}
Lngs == {filteredEvents[i].lng : i \in 1..Len(filteredEvents)}
PaddedSpan(S) == (Max(S) - Min(S)) + 2 * (((Max(S) - Min(S)) * PadPercent) \div 100)
Shows(zoom) == PaddedSpan(Lats) * 2^zoom <= ViewSpan /\ PaddedSpan(Lngs) * 2^zoom <= ViewSpan

\* C5: whenever a reconciliation pass runs with no selection and a non-empty
\* filtered set, the viewport is afterwards centred on the bounding box of the
\* filtered events' markers, at the closest zoom that shows that box widened by
\* the padding fraction on every side.
C5_ReframeWhenUnselected ==
    [][(ReconcilePass /\ selectedEvent = NULL /\ Len(filteredEvents) > 0) =>
          /\ viewport'.center = <<(Min(Lats) + Max(Lats)) \div 2, (Min(Lngs) + Max(Lngs)) \div 2>>
          /\ Shows(viewport'.zoom)
          /\ viewport'.zoom = MaxZoom \/ ~Shows(viewport'.zoom + 1)]_vars

\* Witness of C5: the selection has been cleared under edited filters, the pass
\* has run, and the view frames the two remaining markers.
C5_Witness ==
    /\ mapRef /\ ~effectPending
    /\ selectedEvent = NULL
    /\ filters # NoFilters
    /\ Len(filteredEvents) = 2
    /\ viewport.center = <<(Min(Lats) + Max(Lats)) \div 2, (Min(Lngs) + Max(Lngs)) \div 2>>
    /\ viewport.zoom < DetailZoom

\* C6: a reconciliation pass that runs while the filtered set is empty or an
\* event is selected leaves the viewport, centre and zoom, as it was.
C6_NoReframeOtherwise ==
    [][(ReconcilePass /\ (Len(filteredEvents) = 0 \/ selectedEvent # NULL)) =>
          viewport' = viewport]_vars

\* Witness of C6: filters were edited while an event was selected (the event is
\* no longer listed), the pass has run over a non-empty list, and the view is
\* still the detail view of the selection.
C6_Witness ==
    /\ mapRef /\ ~effectPending
    /\ selectedEvent # NULL
    /\ ~InFiltered(selectedEvent)
    /\ Len(filteredEvents) > 0
    /\ viewport = SetView(selectedEvent.lat, selectedEvent.lng, DetailZoom)

----------------------------------------------------------------------------
(* Properties of the RSVP flow (under SpecRSVP) *)

\* C7: success is terminal: once the flow shows success it never goes back to
\* submitting, never moves to error and sends no further request; it leaves
\* success only by being closed.
C7_SuccessTerminal ==
    [][(isRSVPOpen /\ status = "success") =>
          /\ ~loading'
          /\ status' # "error"
          /\ sent' = sent
          /\ isRSVPOpen' => status' = "success"]_vars

\* C8: an attempt ends in error iff the transport rejected the request and in
\* success iff the transport delivered a response, whatever its status; either
\* way the loading flag is clear once the attempt has resolved.
C8_OutcomeByTransport ==
    /\ status = "error" <=> transport.outcome = "rejected"
    /\ status = "success" <=> transport.outcome = "resolved"
    /\ transport.outcome \in {"resolved", "rejected"} => ~loading
    /\ transport.outcome = "sent" => loading /\ status = "idle"

\* Witness of C8: the endpoint answered with a server error and the attempt
\* ended in success with the loading flag cleared.
C8_Witness ==
    /\ isRSVPOpen
    /\ status = "success"
    /\ transport = [outcome |-> "resolved", response |-> 500]
    /\ ~loading

\* C9: a flow whose attempt ended in error is not dismissed automatically: while
\* it shows the error it closes only by the user's close button.
C9_ErrorStaysOpen ==
    [][(isRSVPOpen /\ status = "error" /\ ~isRSVPOpen') => timers' = timers]_vars

\* C10: the number of requests sent always equals the number of submission
\* attempts, and no more requests are awaited than were sent.
C10_OneRequestPerAttempt ==
    /\ sent = attempts
    /\ inflight + orphaned <= sent

\* Witness of C10: a second attempt was rejected and the flow rests in the error
\* state with nothing re-sent or queued.
C10_Witness ==
    /\ attempts = 2
    /\ status = "error"
    /\ inflight = 0
    /\ orphaned = 0

\* C11: while the request of the shown flow is outstanding (loading), the flow
\* awaits exactly one request and no submission can start, and the need
\* buttons, the contact method buttons and the close button stay enabled
C11_OneRequestInFlight ==
    /\ inflight <= 1
    /\ loading <=> inflight = 1
    /\ (Ready /\ FormShown /\ loading) =>
          /\ ~ENABLED (\E form \in Forms : handleSubmit(form))
          /\ \A val \in ToggleIds : ENABLED toggleNeed(val)
          /\ \A method \in ContactMethods \ {contactMethod} : ENABLED setContactMethod(method)
          /\ ENABLED CloseRSVP

\* a request is outstanding and the user has since changed both the needs and
\* the contact method
C11_Witness ==
    /\ Ready /\ FormShown /\ loading /\ inflight = 1
    /\ attempts < MaxAttempts
    /\ needs # requestBody.needs
    /\ contactMethod # requestBody.contact_method

\* the required fields as the claim states them, with today the user's calendar day
RequiredPresent(form, event) ==
    /\ form.name # ""
    /\ form.phone # ""
    /\ (ParseDate(event.date) # today => form.email # "")

\* C12: a submission can start exactly when name and phone are filled in and,
\* unless the event is dated today, email too; for an event dated today a
\* submission without email starts
C12_RequiredFields ==
    (Ready /\ FormShown /\ ~loading /\ attempts < MaxAttempts) =>
        \A form \in Forms :
            ENABLED handleSubmit(form) <=> RequiredPresent(form, selectedEvent)

\* the event a request body names
EventOf(body) == CHOOSE e \in Range(EVENTS) : e.id = body.eventId

\* C13: the source of every request body is the same-day variant if and only if
\* the event is dated today, and the advance variant otherwise
C13_SourceByDate ==
    requestBody # NoPayload =>
        /\ requestBody.source \in {"Live Event Check-In", "Planning Ahead RSVP"}
        /\ requestBody.source = "Live Event Check-In"
              <=> ParseDate(EventOf(requestBody).date) = today

NoDuplicates(seq) == \A i, j \in 1..Len(seq) : seq[i] = seq[j] => i = j

\* C14: the needs never hold a tag twice; toggling an absent tag adds it,
\* toggling a present tag removes it, and toggling a tag twice in a row gives
\* back the same set of needs
C14_NeedsToggleSet ==
    /\ NoDuplicates(needs)
    /\ \A val \in ToggleIds :
          LET once  == ToggledNeeds(needs, val)
              twice == ToggledNeeds(once, val)
          IN  /\ val \notin Range(needs) => Range(once) = Range(needs) \cup {val}
              /\ val \in Range(needs) => Range(once) = Range(needs) \ {val}
              /\ NoDuplicates(once)
              /\ Range(twice) = Range(needs)

\* two tags are selected, the one pressed first now last: it was taken out and
\* put back
C14_Witness ==
    /\ Ready /\ FormShown
    /\ needs = <<NeedIds[5], NeedIds[1]>>
    /\ loading
    /\ requestBody.needs = <<NeedIds[1], NeedIds[5]>>

\* C15: no step of the RSVP flow (opening, a need or contact method button,
\* submission, success, error, resubmission, close, self-dismiss) changes the
\* filter criteria, the search text, the selection, the markers or the viewport
C15_FlowLeavesMapAlone ==
    [][(rsvpVars' # rsvpVars \/ isRSVPOpen' # isRSVPOpen) => UNCHANGED appVars]_vars

\* a submission has failed while an event is selected, its markers are on the
\* map and the criteria include past events
C15_Witness ==
    /\ Ready /\ FormShown
    /\ status = "error" /\ ~loading
    /\ transport.outcome = "rejected"
    /\ filters.showPast
    /\ mapLayers # {}
    /\ viewport.zoom = DetailZoom

\* C16: a close timer closes only the flow instance whose success set it: an
\* open flow with no timer of its own pending is never closed by a timer
C16_TimerClosesOwnFlowOnly ==
    [][(isRSVPOpen /\ ownTimers = 0) => ~(timers' = timers - 1 /\ ~isRSVPOpen')]_vars

\* an event the RSVP button is offered for
OpenForRSVP(event) == ~event.saveTheDate /\ ~isPast(event.date, today)

\* C17: whenever the RSVP flow is open an event is selected and it is neither
\* save-the-date nor past, and no request is outstanding for a past or
\* save-the-date event
C17_OpenFlowHasOpenEvent ==
    /\ isRSVPOpen => selectedEvent # NULL /\ OpenForRSVP(selectedEvent)
    /\ requestBody # NoPayload => OpenForRSVP(EventOf(requestBody))

====
